---- MODULE Spec2Model ----
(***************************************************************************)
(* A model of the NEAT-style engine of NevinGregory/EmergentBehavior.      *)
(*                                                                         *)
(* Two programs hold the engine:                                           *)
(*   bobbles     src/bobbles/src/main.rs     HashMap genome, innovation    *)
(*               history, compile (topological sort), activate (tanh)      *)
(*   BasicNNTest src/BasicNNTest/src/main.rs Vec genome, forward, mutate,  *)
(*               evolve (roulette selection), main (driving loop)          *)
(*                                                                         *)
(* Specifications:                                                         *)
(*   Spec        one genome of either program (prog), mutated, compiled    *)
(*               and activated                                             *)
(*   SpecTracker the innovation history alone, under get_innovation calls  *)
(*   SpecEvolve  BasicNNTest's main loop and evolve, a genome standing     *)
(*               for the fitness its evaluation yields                     *)
(*                                                                         *)
(* Numbers: f32/f64 values are fixed-point integers in units of 1/One.     *)
(***************************************************************************)
EXTENDS Integers, Sequences, FiniteSets, TLC

VARIABLES
    prog,          \* which program runs: "bobbles" | "basic" | "tracker" | "evolve"
    nodes,         \* genome.nodes: id -> NodeType (bobbles), id -> Node (basic)
    connections,   \* genome.connections: Seq(Connection)
    history,       \* InnovationHistory {map, next_innovation, next_node_id}
    net,           \* the NeuralNetwork compile returned (bobbles)
    result,        \* outcome of the last compile/activate/forward call
    last,          \* what the last mutate call did
    muts,          \* number of mutate calls so far
    acts,          \* number of activations since the last mutate/compile
    crashed,       \* the process aborted (stack overflow) or panicked
    ret,           \* get_innovation calls so far: set of <<from, to, id>>
    population,    \* neat.population: Seq(Genome)
    generation,    \* neat.generation
    fitnesses,     \* evolve: the fitness of each genome of the population
    total_fitness, \* evolve: their sum
    new_population,\* evolve: the next generation so far
    pick,          \* evolve: the last roulette draw (-1: none yet)
    sel,           \* evolve: the index the last scan selected (-1: none)
    pc,            \* where main is: "loop" | "select" | "track" | "done"
    gens,          \* main: iterations of the for loop completed
    best_fitness,  \* main: best_fitness
    best_genome,   \* main: best_genome, <<>> for None and <<g>> for Some(g)
    seen_max,      \* the greatest fitness of any genome of any generation so far
    others         \* the node ids the genomes of population and new_population hold

genomeVars == <<prog, nodes, connections, history, net, result, last, muts, acts, crashed, ret>>

evolveVars == <<population, generation, fitnesses, total_fitness, new_population, pick, sel,
                pc, gens, best_fitness, best_genome, seen_max, others>>

vars == <<genomeVars, evolveVars>>

(***************************************************************************)
(* Bounds of the model.                                                    *)
(***************************************************************************)
MaxMutations == 2      \* mutate calls in one run
MaxConns == 4          \* connections a genome may grow to
MaxNodes == 4          \* nodes a genome may grow to
MaxActMutations == 1   \* mutate calls in one run of SpecAct
MaxActivations == 2    \* activations of one frozen genome
MaxInputLen == 3       \* longest input vector handed to activate/forward
MaxKey == 1            \* node ids 0..MaxKey given to get_innovation (SpecTracker)
MaxInnovation == 3     \* innovation ids handed out (SpecTracker)
PopulationSize == 3    \* config.population_size (100 in main)
MaxGenerations == 2    \* max_generations (100 in main)
MaxSplitConns == 6     \* connections a genome may grow to under SpecSplit
MaxSplitNodes == 5     \* nodes a genome may grow to under SpecSplit

(***************************************************************************)
(* Fixed-point numbers.                                                    *)
(***************************************************************************)
One == 4

\* a product sum (units of 1/One^2) rounded to the nearest unit of 1/One
Round(x) == (2 * x + One) \div (2 * One)

Abs(x) == IF x < 0 THEN -x ELSE x

\* One * tanh(k / One), rounded, for k = 1..6; One from there on
TanhTable == <<1, 2, 3, 3, 3, 4>>

\* f32::tanh on a value in units of 1/One
Tanh(x) ==
    LET a == Abs(x)
        t == IF a = 0 THEN 0 ELSE IF a > Len(TanhTable) THEN One ELSE TanhTable[a]
    IN IF x < 0 THEN -t ELSE t

\* samples of rng.random_range(-1.0..1.0): the upper end is excluded
RandomWeights == {-One, 2}
\* a nudge random_range(-0.1..0.1) keeps a weight or moves it to the next unit
NudgeDeltas == {-1, 0, 1}
\* samples of rng.random_range(-0.5..0.5) (BasicNNTest's weight mutation)
WeightDeltas == {-2, 1}
\* weights the model follows
Weights == {-One, 2, 3, One}
\* the f64 inputs the XOR task feeds
InputValues == {0, One}

RECURSIVE SumSeq(_)
SumSeq(s) == IF s = <<>> THEN 0 ELSE Head(s) + SumSeq(Tail(s))

\* all orderings of the finite set S, as sequences without repetition
RECURSIVE Perms(_)
Perms(S) ==
    IF S = {} THEN {<<>>}
    ELSE UNION {{<<x>> \o p : p \in Perms(S \ {x})} : x \in S}

Range(s) == {s[i] : i \in DOMAIN s}

(***************************************************************************)
(* bobbles: InnovationHistory                                              *)
(***************************************************************************)
\* #[derive(Default)]: an empty map and both counters 0
HistoryDefault == [map |-> <<>>, next_innovation |-> 0, next_node_id |-> 0]

\* InnovationHistory::get_innovation: the id returned and the history left
GetInnovationAlwaysNew(h, from, to) ==
    [id |-> h.next_innovation,
     history |-> [h EXCEPT !.map = (<<from, to>> :> h.next_innovation) @@ h.map,
                           !.next_innovation = @ + 1]]

get_innovation(h, from, to) ==
    IF <<from, to>> \in DOMAIN h.map
    THEN [id |-> h.map[<<from, to>>], history |-> h]
    ELSE [id |-> h.next_innovation,
          history |-> [h EXCEPT !.map = (<<from, to>> :> h.next_innovation) @@ h.map,
                                !.next_innovation = @ + 1]]

(***************************************************************************)
(* bobbles: Genome::compile                                                *)
(***************************************************************************)
NoNet == [status |-> "none", nodes |-> <<>>, execution_order |-> <<>>,
          inputs_count |-> 0, output_indices |-> <<>>]

\* id_to_idx: the dense index of each node id, perm being the order in which
\* the HashMap yields the genome's nodes
id_to_idx(perm) == [id \in Range(perm) |-> (CHOOSE i \in DOMAIN perm : perm[i] = id) - 1]

RECURSIVE incoming(_, _, _, _)
\* the (from_idx, weight) pairs pushed to dense node t, enabled connections in genome order
incoming(conns, idx, t, k) ==
    IF k > Len(conns) THEN <<>>
    ELSE LET c == conns[k]
             rest == incoming(conns, idx, t, k + 1)
         IN IF c.enabled /\ idx[c.to_idx] = t
            THEN <<(<<idx[c.from_idx], c.weight>>)>> \o rest
            ELSE rest

nodes_vec(ns, conns, perm) ==
    LET idx == id_to_idx(perm)
    IN [i \in 0..(Len(perm) - 1) |->
          [id |-> perm[i + 1], value |-> 0, incoming |-> incoming(conns, idx, i, 1),
           node_type |-> ns[perm[i + 1]]]]

RECURSIVE IndicesOfType(_, _, _)
\* the dense indices, ascending from i, of the nodes of type ty
IndicesOfType(nv, ty, i) ==
    IF i \notin DOMAIN nv THEN <<>>
    ELSE IF nv[i].node_type = ty THEN <<i>> \o IndicesOfType(nv, ty, i + 1)
    ELSE IndicesOfType(nv, ty, i + 1)

RECURSIVE visit(_, _, _, _)
RECURSIVE visitIncoming(_, _, _, _, _)
\* fn visit: st = [visited, order, overflow]; stack holds the indices whose visit
\* is in progress.  A node met again while its own visit is in progress is not yet
\* in visited, so the recursion never returns: the stack overflows.
visit(idx, nv, st, stack) ==
    IF st.overflow THEN st
    ELSE IF idx \in st.visited \/ nv[idx].node_type = "Input" THEN st
    ELSE IF idx \in stack THEN [st EXCEPT !.overflow = TRUE]
    ELSE LET after == visitIncoming(nv[idx].incoming, 1, nv, st, stack \cup {idx})
         IN IF after.overflow THEN after
            ELSE [after EXCEPT !.visited = @ \cup {idx}, !.order = Append(@, idx)]

visitIncoming(inc, k, nv, st, stack) ==
    IF k > Len(inc) \/ st.overflow THEN st
    ELSE visitIncoming(inc, k + 1, nv, visit(inc[k][1], nv, st, stack), stack)

RECURSIVE visitOutputs(_, _, _, _)
visitOutputs(outs, k, nv, st) ==
    IF k > Len(outs) \/ st.overflow THEN st
    ELSE visitOutputs(outs, k + 1, nv, visit(outs[k], nv, st, {}))

\* a connection whose end is no key of the genome: id_to_idx[&..] panics
DanglingEnabled(ns, conns) ==
    \E k \in DOMAIN conns :
        conns[k].enabled /\ (conns[k].to_idx \notin DOMAIN ns \/ conns[k].from_idx \notin DOMAIN ns)

\* Genome::compile
compile(ns, conns, perm) ==
    IF DanglingEnabled(ns, conns) THEN [NoNet EXCEPT !.status = "panic"]
    ELSE
    LET nv == nodes_vec(ns, conns, perm)
        output_indices == IndicesOfType(nv, "Output", 0)
        st == visitOutputs(output_indices, 1, nv,
                           [visited |-> {}, order |-> <<>>, overflow |-> FALSE])
    IN IF st.overflow THEN [NoNet EXCEPT !.status = "overflow"]
       ELSE [status |-> "ok", nodes |-> nv, execution_order |-> st.order,
             inputs_count |-> Cardinality({id \in DOMAIN ns : ns[id] = "Input"}),
             output_indices |-> output_indices]

(***************************************************************************)
(* bobbles: NeuralNetwork::activate                                        *)
(***************************************************************************)
RECURSIVE AssignInputs(_, _, _, _)
\* the first loop: [nodes, panic]; node.value = inputs[input_ptr] is out of
\* bounds once input_ptr reaches inputs.len()
AssignInputs(nv, inputs, i, input_ptr) ==
    IF i \notin DOMAIN nv THEN [nodes |-> nv, panic |-> FALSE]
    ELSE IF nv[i].node_type = "Input"
         THEN IF input_ptr >= Len(inputs) THEN [nodes |-> nv, panic |-> TRUE]
              ELSE AssignInputs([nv EXCEPT ![i].value = inputs[input_ptr + 1]],
                                inputs, i + 1, input_ptr + 1)
         ELSE AssignInputs(nv, inputs, i + 1, input_ptr)

RECURSIVE WeightedSum(_, _, _)
WeightedSum(nv, inc, k) ==
    IF k > Len(inc) THEN 0
    ELSE nv[inc[k][1]].value * inc[k][2] + WeightedSum(nv, inc, k + 1)

RECURSIVE RunOrder(_, _, _)
\* the second loop, over execution_order
RunOrder(nv, order, k) ==
    IF k > Len(order) THEN nv
    ELSE LET idx == order[k]
             sum == WeightedSum(nv, nv[idx].incoming, 1)
         IN RunOrder([nv EXCEPT ![idx].value = Tanh(Round(sum))], order, k + 1)

\* NeuralNetwork::activate: [status, nodes, outputs]
activate(n, inputs) ==
    LET a == AssignInputs(n.nodes, inputs, 0, 0)
    IN IF a.panic THEN [status |-> "panic", nodes |-> a.nodes, outputs |-> <<>>]
       ELSE LET nv == RunOrder(a.nodes, n.execution_order, 1)
            IN [status |-> "ok", nodes |-> nv,
                outputs |-> [k \in 1..Len(n.output_indices) |-> nv[n.output_indices[k]].value]]

(***************************************************************************)
(* bobbles: Genome::mutate                                                 *)
(***************************************************************************)
NoMutation == [kind |-> "none", idx |-> 0, from |-> 0, to |-> 0, weight |-> 0,
               was_enabled |-> FALSE, new_id |-> 0, pushed |-> FALSE]

\* the weights one pass of the weight mutation may leave on a connection of
\* weight w: a nudge (random_bool(0.9)) or a reset
MutatedWeights(w) == ({w + d : d \in NudgeDeltas} \cup RandomWeights) \cap Weights

\* keys: the node ids add-connection chooses from_idx and to_idx among
keys(ns, h) == DOMAIN ns

\* the guard of add-connection ("don't connect to an input, and don't connect to self")
AddConnectionAccepts(ns, from_idx, to_idx) ==
    ns[to_idx] # "Input" /\ from_idx # to_idx

NoResult == [op |-> "none", status |-> "none", inputs |-> <<>>, outputs |-> <<>>,
             inputs_count |-> 0]

\* a network compiled before a mutation is not the genome's any more ("must be
\* recompiled"): the model follows only the network of the current genome
DropNetwork == net' = NoNet /\ result' = NoResult /\ acts' = 0

\* mutation_type < 0.8
MutateWeightsB(lim) ==
    /\ prog = "bobbles" /\ ~crashed /\ muts < lim
    /\ \E ws \in [DOMAIN connections -> Weights] :
          /\ \A k \in DOMAIN connections : ws[k] \in MutatedWeights(connections[k].weight)
          /\ connections' = [k \in DOMAIN connections |->
                                [connections[k] EXCEPT !.weight = ws[k]]]
    /\ last' = [NoMutation EXCEPT !.kind = "weights"]
    /\ muts' = muts + 1
    /\ DropNetwork
    /\ UNCHANGED evolveVars
    /\ UNCHANGED <<prog, nodes, history, crashed, ret>>

\* 0.8 <= mutation_type < 0.85
MutateAddConnectionB(lim) ==
    /\ prog = "bobbles" /\ ~crashed /\ muts < lim
    /\ \E from_idx \in keys(nodes, history), to_idx \in keys(nodes, history), w \in RandomWeights :
          IF AddConnectionAccepts(nodes, from_idx, to_idx)
          THEN LET g == get_innovation(history, from_idx, to_idx)
               IN /\ Len(connections) < MaxConns
                  /\ history' = g.history
                  /\ connections' = Append(connections,
                        [from_idx |-> from_idx, to_idx |-> to_idx, weight |-> w,
                         enabled |-> TRUE, innovation |-> g.id])
                  /\ last' = [NoMutation EXCEPT !.kind = "add_connection",
                                !.idx = Len(connections) + 1, !.from = from_idx,
                                !.to = to_idx, !.weight = w, !.pushed = TRUE]
          ELSE /\ UNCHANGED <<history, connections>>
               /\ last' = [NoMutation EXCEPT !.kind = "add_connection",
                                !.from = from_idx, !.to = to_idx]
    /\ muts' = muts + 1
    /\ DropNetwork
    /\ UNCHANGED evolveVars
    /\ UNCHANGED <<prog, nodes, crashed, ret>>

\* 0.85 <= mutation_type < 0.88: the two pushes are commented out in the source
MutateAddNodeB(lim) ==
    /\ prog = "bobbles" /\ ~crashed /\ muts < lim
    /\ IF \E k \in DOMAIN connections : connections[k].enabled
       THEN \E k \in DOMAIN connections :
               /\ connections[k].enabled
               /\ Cardinality(DOMAIN nodes \cup {history.next_node_id}) <= MaxNodes
               /\ LET conn == connections[k]
                      new_id == history.next_node_id
                      h1 == [history EXCEPT !.next_node_id = @ + 1]
                      g1 == get_innovation(h1, conn.from_idx, new_id)
                      g2 == get_innovation(g1.history, new_id, conn.to_idx)
                  IN /\ connections' = [connections EXCEPT ![k].enabled = FALSE]
                     /\ nodes' = (new_id :> "Hidden") @@ nodes
                     /\ history' = g2.history
                     /\ last' = [kind |-> "add_node", idx |-> k, from |-> conn.from_idx,
                                 to |-> conn.to_idx, weight |-> conn.weight,
                                 was_enabled |-> conn.enabled, new_id |-> new_id,
                                 pushed |-> FALSE]
       ELSE /\ UNCHANGED <<connections, nodes, history>>
            /\ last' = [NoMutation EXCEPT !.kind = "add_node_skipped"]
    /\ muts' = muts + 1
    /\ DropNetwork
    /\ UNCHANGED evolveVars
    /\ UNCHANGED <<prog, crashed, ret>>

\* mutation_type >= 0.88: no branch is taken
MutateNothingB(lim) ==
    /\ prog = "bobbles" /\ ~crashed /\ muts < lim
    /\ last' = NoMutation
    /\ muts' = muts + 1
    /\ DropNetwork
    /\ UNCHANGED evolveVars
    /\ UNCHANGED <<prog, nodes, connections, history, crashed, ret>>

InputVectors == UNION {[1..n -> InputValues] : n \in 0..MaxInputLen}

\* a call of genome.compile(): the HashMap yields the nodes in some order
CompileB ==
    /\ prog = "bobbles" /\ ~crashed
    /\ \E perm \in Perms(DOMAIN nodes) :
          LET n == compile(nodes, connections, perm)
          IN /\ net' = n
             /\ result' = [NoResult EXCEPT !.op = "compile", !.status = n.status]
             /\ crashed' = (n.status # "ok")
    /\ acts' = 0
    /\ UNCHANGED evolveVars
    /\ UNCHANGED <<prog, nodes, connections, history, last, muts, ret>>

\* a call of network.activate(inputs)
ActivateB ==
    /\ prog = "bobbles" /\ ~crashed /\ net.status = "ok" /\ acts < MaxActivations
    /\ \E inputs \in InputVectors :
          LET a == activate(net, inputs)
          IN /\ net' = [net EXCEPT !.nodes = a.nodes]
             /\ result' = [op |-> "activate", status |-> a.status, inputs |-> inputs,
                           outputs |-> a.outputs, inputs_count |-> net.inputs_count]
             /\ crashed' = (a.status # "ok")
    /\ acts' = acts + 1
    /\ UNCHANGED evolveVars
    /\ UNCHANGED <<prog, nodes, connections, history, last, muts, ret>>

\* the variables of BasicNNTest's population, where no population runs
EvolveIdle ==
    /\ population = <<>> /\ generation = 0 /\ fitnesses = <<>> /\ total_fitness = 0
    /\ new_population = <<>> /\ pick = -1 /\ sel = -1 /\ pc = "idle" /\ gens = 0
    /\ best_fitness = 0 /\ best_genome = <<>> /\ seen_max = 0

\* the minimal seed genome: inputs 0 and 1, output 2, both inputs connected to
\* the output, the connections' innovations taken from a fresh history
SeedHistory ==
    get_innovation(get_innovation(HistoryDefault, 0, 2).history, 1, 2).history

InitBobbles ==
    /\ prog = "bobbles"
    /\ nodes = (0 :> "Input") @@ (1 :> "Input") @@ (2 :> "Output")
    /\ \E w1 \in RandomWeights, w2 \in RandomWeights :
          connections = <<[from_idx |-> 0, to_idx |-> 2, weight |-> w1, enabled |-> TRUE,
                           innovation |-> SeedHistory.map[<<0, 2>>]],
                          [from_idx |-> 1, to_idx |-> 2, weight |-> w2, enabled |-> TRUE,
                           innovation |-> SeedHistory.map[<<1, 2>>]]>>
    /\ history = SeedHistory
    /\ net = NoNet
    /\ result = NoResult
    /\ last = NoMutation
    /\ muts = 0
    /\ acts = 0
    /\ crashed = FALSE
    /\ ret = {}
    /\ EvolveIdle
    /\ others = {}

\* the genome's operations but its activation, at most lim mutate calls in a run
NextBobbles(lim) ==
    \/ MutateWeightsB(lim)
    \/ MutateAddConnectionB(lim)
    \/ MutateAddNodeB(lim)
    \/ MutateNothingB(lim)
    \/ CompileB


(***************************************************************************)
(* BasicNNTest: Genome                                                     *)
(***************************************************************************)
\* Node::new
Node(id, node_type) == [id |-> id, value |-> 0, node_type |-> node_type]

\* Genome::add_node: the id the new node gets
add_node_id(ns) == Cardinality(DOMAIN ns)

\* Genome::add_node: the nodes after the push
add_node(ns, node_type) == (add_node_id(ns) :> Node(add_node_id(ns), node_type)) @@ ns

\* Connection::new and Genome::add_connection
add_connection(conns, from, to, weight) ==
    Append(conns, [from_idx |-> from, to_idx |-> to, weight |-> weight, enabled |-> TRUE])

RECURSIVE AssignInputsN(_, _, _, _)
\* forward, step 1: an Input node takes the next input while one is left
AssignInputsN(ns, inputs, i, input_ptr) ==
    IF i \notin DOMAIN ns THEN ns
    ELSE IF ns[i].node_type = "Input" /\ input_ptr < Len(inputs)
         THEN AssignInputsN([ns EXCEPT ![i].value = inputs[input_ptr + 1]],
                            inputs, i + 1, input_ptr + 1)
         ELSE AssignInputsN(ns, inputs, i + 1, input_ptr)

RECURSIVE IncomingSum(_, _, _, _)
\* the sum over the enabled connections into node i of weight * nodes[from_idx].value
IncomingSum(ns, conns, i, k) ==
    IF k > Len(conns) THEN 0
    ELSE (IF conns[k].enabled /\ conns[k].to_idx = i
          THEN conns[k].weight * ns[conns[k].from_idx].value ELSE 0)
         + IncomingSum(ns, conns, i, k + 1)

RECURSIVE ComputeNodes(_, _, _)
\* forward, step 2: the nodes in index order; Node::compute stores the raw sum
ComputeNodes(ns, conns, i) ==
    IF i \notin DOMAIN ns THEN ns
    ELSE IF ns[i].node_type = "Input" THEN ComputeNodes(ns, conns, i + 1)
    ELSE ComputeNodes([ns EXCEPT ![i].value = Round(IncomingSum(ns, conns, i, 1))],
                      conns, i + 1)

RECURSIVE OutputValues(_, _)
OutputValues(ns, i) ==
    IF i \notin DOMAIN ns THEN <<>>
    ELSE IF ns[i].node_type = "Output" THEN <<ns[i].value>> \o OutputValues(ns, i + 1)
    ELSE OutputValues(ns, i + 1)

\* Genome::forward: [status, nodes, outputs]
forward(ns, conns, inputs) ==
    LET computed == ComputeNodes(AssignInputsN(ns, inputs, 0, 0), conns, 0)
    IN [status |-> "ok", nodes |-> computed, outputs |-> OutputValues(computed, 0)]

\* Neat::create_initial_genome
create_initial_genome(w1, w2) ==
    LET n1 == add_node(<<>>, "Input")
        n2 == add_node(n1, "Input")
        n3 == add_node(n2, "Output")
    IN [nodes |-> n3,
        connections |-> add_connection(add_connection(<<>>, 0, 2, w1), 1, 2, w2)]

(***************************************************************************)
(* BasicNNTest: Neat::mutate, its three steps in order                     *)
(***************************************************************************)
\* "Mutate Weights": connection idx gets weight + d
mutate_weight(conns, idx, d) == [conns EXCEPT ![idx].weight = @ + d]

\* "New Connection": pushed when the two nodes' types differ
NewConnectionAccepts(ns, n1_idx, n2_idx) == ns[n1_idx].node_type # ns[n2_idx].node_type

\* "New Node": the genome after connection conn_idx is split
SplitDanglingMiddle(g, conn_idx) ==
    LET c == g.connections[conn_idx]
        middle_idx == add_node_id(g.nodes) + 1
        disabled == [g.connections EXCEPT ![conn_idx].enabled = FALSE]
    IN [nodes |-> add_node(g.nodes, "Hidden"),
        connections |-> add_connection(add_connection(disabled,
                            c.from_idx, middle_idx, One), middle_idx, c.to_idx, c.weight)]

split_connection(g, conn_idx) ==
    LET c == g.connections[conn_idx]
        middle_idx == add_node_id(g.nodes)
        disabled == [g.connections EXCEPT ![conn_idx].enabled = FALSE]
    IN [nodes |-> add_node(g.nodes, "Hidden"),
        connections |-> add_connection(add_connection(disabled,
                            c.from_idx, middle_idx, One), middle_idx, c.to_idx, c.weight)]

\* Neat::mutate(genome): do_w, do_c, do_n are the three random_bool draws; a
\* draw the call does not make ranges over one value
MutateWithin(lim, max_conns, max_nodes) ==
    /\ prog = "basic" /\ ~crashed /\ muts < lim
    /\ \E do_w \in BOOLEAN, do_c \in BOOLEAN, do_n \in BOOLEAN :
       \E idx \in (IF do_w THEN DOMAIN connections ELSE {1}),
          d \in (IF do_w THEN WeightDeltas ELSE {0}) :
       \E n1_idx \in (IF do_c THEN DOMAIN nodes ELSE {0}),
          n2_idx \in (IF do_c THEN DOMAIN nodes ELSE {0}) :
          LET c1 == IF do_w /\ connections # <<>>
                    THEN mutate_weight(connections, idx, d) ELSE connections
              pushed == do_c /\ NewConnectionAccepts(nodes, n1_idx, n2_idx)
          IN \E w \in (IF pushed THEN RandomWeights ELSE {0}) :
             LET c2 == IF pushed THEN add_connection(c1, n1_idx, n2_idx, w) ELSE c1
                 split == do_n /\ c2 # <<>>
             IN \E conn_idx \in (IF split THEN DOMAIN c2 ELSE {1}) :
                LET g == IF split
                         THEN split_connection([nodes |-> nodes, connections |-> c2], conn_idx)
                         ELSE [nodes |-> nodes, connections |-> c2]
                IN /\ \A k \in DOMAIN c1 : c1[k].weight \in Weights
                   /\ Len(g.connections) <= max_conns
                   /\ Cardinality(DOMAIN g.nodes) <= max_nodes
                   /\ nodes' = g.nodes
                   /\ connections' = g.connections
                   /\ last' = IF split
                              THEN [kind |-> "add_node", idx |-> conn_idx,
                                    from |-> c2[conn_idx].from_idx, to |-> c2[conn_idx].to_idx,
                                    weight |-> c2[conn_idx].weight,
                                    was_enabled |-> c2[conn_idx].enabled,
                                    new_id |-> add_node_id(nodes), pushed |-> TRUE]
                              ELSE IF do_c
                              THEN [NoMutation EXCEPT !.kind = "add_connection",
                                        !.from = n1_idx, !.to = n2_idx, !.pushed = pushed]
                              ELSE [NoMutation EXCEPT !.kind = IF do_w THEN "weights" ELSE "none"]
    /\ muts' = muts + 1
    /\ acts' = 0
    /\ result' = NoResult
    /\ UNCHANGED evolveVars
    /\ UNCHANGED <<prog, history, net, crashed, ret>>

\* Neat::mutate on genomes of at most MaxConns connections and MaxNodes nodes
MutateN(lim) == MutateWithin(lim, MaxConns, MaxNodes)

\* a call of genome.forward(inputs)
ForwardN ==
    /\ prog = "basic" /\ ~crashed /\ acts < MaxActivations
    /\ \E inputs \in InputVectors :
          LET f == forward(nodes, connections, inputs)
          IN /\ nodes' = f.nodes
             /\ result' = [op |-> "forward", status |-> f.status, inputs |-> inputs,
                           outputs |-> f.outputs,
                           inputs_count |-> Cardinality({i \in DOMAIN nodes :
                                                nodes[i].node_type = "Input"})]
    /\ acts' = acts + 1
    /\ UNCHANGED evolveVars
    /\ UNCHANGED <<prog, connections, history, net, last, muts, crashed, ret>>

\* a genome Neat::create_initial_genome made, before any call on it
SeedBasic ==
    /\ prog = "basic"
    /\ \E w1 \in RandomWeights, w2 \in RandomWeights :
          /\ nodes = create_initial_genome(w1, w2).nodes
          /\ connections = create_initial_genome(w1, w2).connections
    /\ history = HistoryDefault
    /\ net = NoNet
    /\ result = NoResult
    /\ last = NoMutation
    /\ muts = 0
    /\ acts = 0
    /\ crashed = FALSE
    /\ ret = {}
    /\ EvolveIdle

InitBasic == SeedBasic /\ others = {}

Init == InitBobbles \/ InitBasic

\* one genome of either program, mutated and compiled
Next == NextBobbles(MaxMutations) \/ MutateN(MaxMutations)

Spec == Init /\ [][Next]_vars

\* one genome of either program, activated after at most MaxActMutations mutate calls
NextAct ==
    \/ NextBobbles(MaxActMutations)
    \/ MutateN(MaxActMutations)
    \/ ActivateB
    \/ ForwardN

SpecAct == Init /\ [][NextAct]_vars

(***************************************************************************)
(* SpecReproduce: the offspring evolve makes of seed genomes, one after    *)
(* the other, each a clone that mutate is called on once (Neat::reproduce) *)
(***************************************************************************)
\* the population Neat::new made; reproduce has cloned one of its genomes
InitReproduce == SeedBasic /\ others = DOMAIN nodes

\* new_population.push(offspring), then reproduce clones the next parent
PushOffspring ==
    /\ prog = "basic" /\ muts = 1
    /\ others' = others \cup DOMAIN nodes
    /\ \E w1 \in RandomWeights, w2 \in RandomWeights :
          /\ nodes' = create_initial_genome(w1, w2).nodes
          /\ connections' = create_initial_genome(w1, w2).connections
    /\ last' = NoMutation
    /\ muts' = 0
    /\ UNCHANGED <<prog, history, net, result, acts, crashed, ret>>
    /\ UNCHANGED <<population, generation, fitnesses, total_fitness, new_population, pick,
                   sel, pc, gens, best_fitness, best_genome, seen_max>>

NextReproduce == MutateN(1) \/ PushOffspring

SpecReproduce == InitReproduce /\ [][NextReproduce]_vars

(***************************************************************************)
(* SpecSplit: two Neat::mutate calls on a seed genome of BasicNNTest, the  *)
(* genome given room for two splits                                        *)
(***************************************************************************)
MutateSplit == MutateWithin(2, MaxSplitConns, MaxSplitNodes)

SpecSplit == InitBasic /\ [][MutateSplit]_vars

(***************************************************************************)
(* SpecTracker: the innovation history under get_innovation calls          *)
(***************************************************************************)
GenomeIdle ==
    /\ nodes = <<>> /\ connections = <<>> /\ net = NoNet /\ result = NoResult
    /\ muts = 0 /\ acts = 0 /\ crashed = FALSE

InitTracker ==
    /\ prog = "tracker"
    /\ history = HistoryDefault
    /\ ret = {}
    /\ last = NoMutation
    /\ GenomeIdle
    /\ EvolveIdle
    /\ others = {}

\* a call history.get_innovation(from, to)
GetInnovationCall ==
    /\ prog = "tracker"
    /\ \E from \in 0..MaxKey, to \in 0..MaxKey :
          LET g == get_innovation(history, from, to)
          IN /\ g.history.next_innovation <= MaxInnovation
             /\ history' = g.history
             /\ ret' = ret \cup {<<from, to, g.id>>}
             /\ last' = [NoMutation EXCEPT !.kind = "get_innovation", !.from = from,
                            !.to = to, !.new_id = g.id,
                            !.pushed = (<<from, to>> \notin DOMAIN history.map)]
    /\ UNCHANGED evolveVars
    /\ UNCHANGED <<prog, nodes, connections, net, result, muts, acts, crashed>>

NextTracker == GetInnovationCall

SpecTracker == InitTracker /\ [][NextTracker]_vars

(***************************************************************************)
(* SpecEvolve: BasicNNTest's Neat::evolve and the loop of main.            *)
(* compute_fitness yields an f64 that evolve only adds and compares: a     *)
(* genome is kept as the fitness its evaluation yields, on an integer grid.*)
(* A draw of random_range(0.0..m) compares with grid sums as its integer   *)
(* part does, so pick ranges over 0..m-1.                                  *)
(***************************************************************************)
\* the fitnesses a genome may evaluate to
FitnessValues == {0, 1, 3}
\* the floor 0.1 of total_fitness.max(0.1), on the grid
Epsilon == 2
\* target_fitness, on the grid
TargetFitness == 3

Genomes == {[fitness |-> f] : f \in FitnessValues}

\* Neat::compute_fitness
compute_fitness(g) == g.fitness

\* Neat::reproduce: a clone of the parent that mutate changed or left alone
reproduce(parent) == Genomes

Max(a, b) == IF a >= b THEN a ELSE b

RECURSIVE MaxFitness(_)
MaxFitness(pop) ==
    IF pop = <<>> THEN 0 ELSE Max(compute_fitness(Head(pop)), MaxFitness(Tail(pop)))

\* the roulette scan: the index i (from 0) at which current exceeds pick, -1 if none
RECURSIVE scan_ge(_, _, _, _)
scan_ge(fs, p, i, current) ==
    IF i >= Len(fs) THEN -1
    ELSE IF current + fs[i + 1] >= p THEN i
    ELSE scan_ge(fs, p, i + 1, current + fs[i + 1])

RECURSIVE scan(_, _, _, _)
scan(fs, p, i, current) ==
    IF i >= Len(fs) THEN -1
    ELSE IF current + fs[i + 1] > p THEN i
    ELSE scan(fs, p, i + 1, current + fs[i + 1])

\* the condition of evolve's while loop
LoopContinuesAtSize(len) == len <= PopulationSize

LoopContinues(len) == len < PopulationSize

\* Neat::new, then main up to its loop
InitEvolve ==
    /\ prog = "evolve"
    /\ population \in [1..PopulationSize -> Genomes]
    /\ generation = 0
    /\ fitnesses = <<>> /\ total_fitness = 0 /\ new_population = <<>>
    /\ pick = -1 /\ sel = -1
    /\ pc = "loop" /\ gens = 0
    /\ best_fitness = 0 /\ best_genome = <<>>
    /\ seen_max = MaxFitness(population)
    /\ history = HistoryDefault /\ ret = {} /\ last = NoMutation
    /\ GenomeIdle
    /\ others = {}

\* evolve, up to its while loop
EvolveBegin ==
    /\ prog = "evolve" /\ pc = "loop"
    /\ fitnesses' = [i \in DOMAIN population |-> compute_fitness(population[i])]
    /\ total_fitness' = SumSeq(fitnesses')
    /\ new_population' = <<>>
    /\ pick' = -1 /\ sel' = -1
    /\ pc' = "select"
    /\ UNCHANGED <<population, generation, gens, best_fitness, best_genome, seen_max, others>>
    /\ UNCHANGED genomeVars

\* one iteration of evolve's while loop
SelectStep ==
    /\ prog = "evolve" /\ pc = "select"
    /\ LoopContinues(Len(new_population))
    /\ \E p \in 0..(Max(total_fitness, Epsilon) - 1) :
          LET i == scan(fitnesses, p, 0, 0)
          IN \E offspring \in (IF i >= 0 THEN reproduce(population[i + 1]) ELSE {[fitness |-> 0]}),
                seed \in (IF total_fitness <= 0 THEN Genomes ELSE {[fitness |-> 0]}) :
                LET selected == IF i >= 0 THEN Append(new_population, offspring)
                                ELSE new_population
                IN /\ new_population' = IF total_fitness <= 0 THEN Append(selected, seed)
                                        ELSE selected
                   /\ pick' = p
                   /\ sel' = i
    /\ UNCHANGED <<population, generation, fitnesses, total_fitness, pc, gens,
                   best_fitness, best_genome, seen_max, others>>
    /\ UNCHANGED genomeVars

\* evolve, after its while loop
EvolveEnd ==
    /\ prog = "evolve" /\ pc = "select"
    /\ ~LoopContinues(Len(new_population))
    /\ population' = new_population
    /\ generation' = generation + 1
    /\ seen_max' = Max(seen_max, MaxFitness(new_population))
    /\ pc' = "track"
    /\ UNCHANGED <<fitnesses, total_fitness, new_population, pick, sel, gens,
                   best_fitness, best_genome, others>>
    /\ UNCHANGED genomeVars

RECURSIVE TrackBest(_, _, _)
\* main's scan of the population: [fitness, genome] after genomes k.. are seen
TrackBest(pop, k, best) ==
    IF k > Len(pop) THEN best
    ELSE LET f == compute_fitness(pop[k])
         IN TrackBest(pop, k + 1,
                      IF f > best.fitness THEN [fitness |-> f, genome |-> <<pop[k]>>]
                      ELSE best)

\* the rest of one iteration of main's for loop
Track ==
    /\ prog = "evolve" /\ pc = "track"
    /\ LET best == TrackBest(population, 1, [fitness |-> best_fitness, genome |-> best_genome])
       IN /\ best_fitness' = best.fitness
          /\ best_genome' = best.genome
          /\ pc' = IF best.fitness >= TargetFitness \/ gens + 1 >= MaxGenerations
                   THEN "done" ELSE "loop"
    /\ gens' = gens + 1
    /\ UNCHANGED <<population, generation, fitnesses, total_fitness, new_population,
                   pick, sel, seen_max, others>>
    /\ UNCHANGED genomeVars

NextEvolve ==
    \/ EvolveBegin
    \/ SelectStep
    \/ EvolveEnd
    \/ Track

SpecEvolve == InitEvolve /\ [][NextEvolve]_vars

(***************************************************************************)
(* The claims                                                              *)
(***************************************************************************)
\* the kind of node id in the genome of either program
NodeTypeOf(ns, id) == IF prog = "basic" THEN ns[id].node_type ELSE ns[id]

NonInput(nv) == {i \in DOMAIN nv : nv[i].node_type # "Input"}

\* the positions of dense index i in execution_order
PositionsOf(order, i) == {k \in DOMAIN order : order[k] = i}

\* C1: whenever compile has been called on a genome reached from the minimal seed
\* genome by mutate calls, it returned, and its execution_order holds every
\* non-Input node exactly once, each node after every non-Input node it reads.
C1_CompileTopological ==
    result.op = "compile" =>
        /\ result.status = "ok"
        /\ \A i \in NonInput(net.nodes) :
              Cardinality(PositionsOf(net.execution_order, i)) = 1
        /\ \A k \in DOMAIN net.execution_order :
              \A j \in DOMAIN net.nodes[net.execution_order[k]].incoming :
                 LET src == net.nodes[net.execution_order[k]].incoming[j][1]
                 IN src \in NonInput(net.nodes) =>
                       \E m \in 1..(k - 1) : net.execution_order[m] = src

\* C2: after an add-node mutation split an enabled connection C = (A, B, w), C is
\* disabled, an enabled connection A -> new of weight 1.0 and an enabled
\* connection new -> B of weight w exist, new being the added Hidden node.
C2_WeightPreservingSplit ==
    (last.kind = "add_node" /\ last.was_enabled) =>
        /\ ~connections[last.idx].enabled
        /\ last.new_id \in DOMAIN nodes
        /\ NodeTypeOf(nodes, last.new_id) = "Hidden"
        /\ \E k \in DOMAIN connections :
              /\ connections[k].enabled
              /\ connections[k].from_idx = last.from
              /\ connections[k].to_idx = last.new_id
              /\ connections[k].weight = One
        /\ \E k \in DOMAIN connections :
              /\ connections[k].enabled
              /\ connections[k].from_idx = last.new_id
              /\ connections[k].to_idx = last.to
              /\ connections[k].weight = last.weight

\* C3: any two get_innovation calls made so far returned the same id exactly
\* when they were given the same (from, to) pair.
C3_InnovationStable ==
    \A r1 \in ret, r2 \in ret :
        (r1[1] = r2[1] /\ r1[2] = r2[2]) <=> (r1[3] = r2[3])

\* a pair registered first is asked again after other pairs, and gets its id again
C3_Witness ==
    /\ last.kind = "get_innovation" /\ ~last.pushed
    /\ last.new_id = 0
    /\ Cardinality(ret) >= 3

\* C4: the id an add-node mutation gives the new Hidden node is the id of no node
\* of the genome or of another genome of the run, and the mutation leaves the
\* kind of every node as it was.
C4_AddNodeFreshId ==
    [][(muts' = muts + 1 /\ last'.kind = "add_node") =>
          /\ last'.new_id \notin (DOMAIN nodes \cup others)
          /\ \A id \in DOMAIN nodes : NodeTypeOf(nodes', id) = NodeTypeOf(nodes, id)]_vars

\* C5: every connection's from and to are ids of nodes of the same genome.
C5_ConnectionsReferToNodes ==
    \A k \in DOMAIN connections :
        /\ connections[k].from_idx \in DOMAIN nodes
        /\ connections[k].to_idx \in DOMAIN nodes

\* a genome that an add-connection and an add-node mutation have grown
C5_Witness ==
    /\ last.kind = "add_node"
    /\ Len(connections) >= 3
    /\ \E k \in DOMAIN connections : connections[k].from_idx = last.new_id

\* the input vectors of the length the genome's Input nodes ask for
InputsOfLength(n) == {v \in InputVectors : Len(v) = n}

InputCount == Cardinality({id \in DOMAIN nodes : NodeTypeOf(nodes, id) = "Input"})

\* C6: on the frozen genome an activation returns the same outputs for the same
\* inputs whether or not another activation was performed before it.
C6_ActivationPure ==
    \A v \in InputsOfLength(InputCount), other \in InputsOfLength(InputCount) :
        /\ prog = "basic" =>
              forward(nodes, connections, v).outputs
                 = forward(forward(nodes, connections, other).nodes, connections, v).outputs
        /\ (prog = "bobbles" /\ net.status = "ok") =>
              activate(net, v).outputs
                 = activate([net EXCEPT !.nodes = activate(net, other).nodes], v).outputs

\* C7: an activation given an input vector whose length differs from the number
\* of Input nodes ends in an error.
C7_LengthMismatchFails ==
    (result.op \in {"activate", "forward"} /\ Len(result.inputs) # result.inputs_count) =>
        result.status = "panic"

\* C8: a call of evolve leaves a population of exactly population_size genomes
\* and a generation counter one higher, whatever the fitnesses were.
C8_EvolveReplacesPopulation ==
    /\ pc = "track" => (Len(population) = PopulationSize /\ generation = gens + 1)
    /\ pc \in {"loop", "select", "done"} => generation = gens
    /\ pc \in {"loop", "done"} => Len(population) = PopulationSize

\* evolve has returned from a population whose fitnesses were all zero
C8_Witness ==
    /\ pc = "track" /\ generation = 1
    /\ total_fitness = 0
    /\ Len(fitnesses) = PopulationSize

\* the sum of the fitnesses of indices 0..i
CumulativeFitness(fs, i) == SumSeq(SubSeq(fs, 1, i + 1))

\* C9: a draw below the total fitness selects the smallest index whose cumulative
\* fitness exceeds the draw, and that genome's fitness is not 0.
C9_RouletteSelectsFirstExceeding ==
    (pick >= 0 /\ pick < total_fitness) =>
        /\ sel \in 0..(Len(fitnesses) - 1)
        /\ CumulativeFitness(fitnesses, sel) > pick
        /\ \A j \in 0..(sel - 1) : CumulativeFitness(fitnesses, j) <= pick
        /\ fitnesses[sel + 1] > 0

\* only the last genome has a fitness above 0, and a draw selected it
C9_Witness ==
    /\ pick >= 0 /\ pick < total_fitness
    /\ \A k \in 1..(Len(fitnesses) - 1) : fitnesses[k] = 0
    /\ sel = Len(fitnesses) - 1
    /\ Len(new_population) >= 1

\* C10: best_fitness never decreases; after every generation it is the greatest
\* fitness of any genome of any generation so far, the seed generation included,
\* and best_genome attained it; main calls evolve at most max_generations times
\* and not once best_fitness has reached target_fitness.
C10_BestOfAllGenerations ==
    /\ [][best_fitness' >= best_fitness]_vars
    /\ [](/\ generation <= MaxGenerations
          /\ (pc \in {"loop", "select"} /\ gens >= 1) => best_fitness < TargetFitness
          /\ (pc \in {"loop", "done"} /\ gens >= 1) =>
                /\ best_fitness = seen_max
                /\ best_genome # <<>> => compute_fitness(best_genome[1]) = best_fitness)

\* the (from, to) pairs of the enabled connections
EnabledEdges(conns) ==
    {<<conns[k].from_idx, conns[k].to_idx>> : k \in {j \in DOMAIN conns : conns[j].enabled}}

\* the nodes reached from the nodes of S along edges of E, S included
RECURSIVE ReachableFrom(_, _)
ReachableFrom(E, S) ==
    LET T == S \cup {e[2] : e \in {d \in E : d[1] \in S}}
    IN IF T = S THEN S ELSE ReachableFrom(E, T)

\* node n lies on a cycle of the edges E
OnCycle(E, n) == n \in ReachableFrom(E, {e[2] : e \in {d \in E : d[1] = n}})

\* C11: in every genome reached from a minimal seed genome by mutate calls, no
\* node lies on a cycle of enabled connections.
C11_EnabledGraphAcyclic ==
    \A n \in DOMAIN nodes : ~OnCycle(EnabledEdges(connections), n)

\* C12: an add-connection attempt on two identical nodes or on an Input target
\* pushes nothing, and no connection of the genome has from equal to to or an
\* Input node as its to.
C12_NoSelfOrInputTarget ==
    /\ (/\ last.kind = "add_connection"
        /\ (last.from = last.to \/ NodeTypeOf(nodes, last.to) = "Input")) => ~last.pushed
    /\ \A k \in DOMAIN connections :
          /\ connections[k].from_idx # connections[k].to_idx
          /\ NodeTypeOf(nodes, connections[k].to_idx) # "Input"

\* C13: no two connections of the genome have the same (from, to) pair, and in
\* bobbles no two carry the same innovation id.
C13_UniqueConnectionPairs ==
    \A j \in DOMAIN connections, k \in DOMAIN connections :
        j # k =>
            /\ <<connections[j].from_idx, connections[j].to_idx>>
                  # <<connections[k].from_idx, connections[k].to_idx>>
            /\ prog = "bobbles" => connections[j].innovation # connections[k].innovation

\* the ids of the genome's nodes of type ty
IdsOfType(ns, ty) == {id \in DOMAIN ns : NodeTypeOf(ns, id) = ty}

\* the position (from 1) of id among the ids of S in ascending order
RankAmong(S, id) == Cardinality({x \in S : x <= id})

\* the outputs the genome's networks return for inputs v, over the orders in
\* which the node map may be iterated
OutputsOverOrders(v) ==
    {activate(compile(nodes, connections, perm), v).outputs :
        perm \in {p \in Perms(DOMAIN nodes) : compile(nodes, connections, p).status = "ok"}}

\* C14: after an activation of a compiled network the i-th Input node in node id
\* order holds inputs[i] and the outputs are the Output nodes' values in node id
\* order; the outputs for given inputs are the same whatever order compile
\* iterated the genome's node map in.
C14_InputOrderIndependent ==
    (prog = "bobbles" /\ result.op = "activate" /\ result.status = "ok"
        /\ Len(result.inputs) = result.inputs_count) =>
        /\ \A i \in DOMAIN net.nodes :
              net.nodes[i].node_type = "Input" =>
                 net.nodes[i].value
                    = result.inputs[RankAmong(IdsOfType(nodes, "Input"), net.nodes[i].id)]
        /\ \A k \in DOMAIN net.output_indices :
              RankAmong(IdsOfType(nodes, "Output"), net.nodes[net.output_indices[k]].id) = k
        /\ Cardinality(OutputsOverOrders(result.inputs)) <= 1

\* C15: an add-node mutation only splits a connection that was enabled when it
\* was chosen, and an add-node attempt that is skipped leaves the genome's nodes
\* and connections as they were.
C15_SplitsEnabledOnly ==
    /\ [](last.kind = "add_node" => last.was_enabled)
    /\ [][last'.kind = "add_node_skipped" => UNCHANGED <<nodes, connections>>]_vars

====
